---- MODULE Spec2Model ----
(***************************************************************************)
(* rustalize: the declaration parser (Parser::parse and its helpers), the  *)
(* type-expression parser (Parser::parse_type), the type formatter         *)
(* (TypeNode::display) and the tree renderer (display_tree) of src/lib.rs. *)
(*                                                                         *)
(* Texts are TLA+ strings, read as sequences of characters with Len,       *)
(* SubSeq and \o.  A Rust Option is a sequence of length 0 (None) or 1     *)
(* (Some), a Vec is a sequence, a Result is a record tagged "Ok" or "Err". *)
(***************************************************************************)
EXTENDS Integers, Sequences, FiniteSets, TLC

VARIABLES pc, decl, input, route, result, lines, shown, reparsed

vars == <<pc, decl, input, route, result, lines, shown, reparsed>>

(***************************************************************************)
(* Bounds of the model.                                                    *)
(***************************************************************************)
MaxMembers == 3

MaxTypeDepth == 2

(***************************************************************************)
(* The str methods of the Rust standard library the parser is written in.  *)
(***************************************************************************)
Ch(s, i) == SubSeq(s, i, i)

IsWhitespace(c) == c \in {" ", "\n", "\t", "\r"}

MinOf(S) == CHOOSE i \in S : \A j \in S : i <= j

MaxOf(S) == CHOOSE i \in S : \A j \in S : j <= i

\* str::trim
Trim(s) ==
    LET keep == {i \in 1..Len(s) : ~IsWhitespace(Ch(s, i))}
    IN  IF keep = {} THEN "" ELSE SubSeq(s, MinOf(keep), MaxOf(keep))

\* str::starts_with
StartsWith(s, p) == Len(s) >= Len(p) /\ SubSeq(s, 1, Len(p)) = p

\* str::ends_with
EndsWith(s, p) == Len(s) >= Len(p) /\ SubSeq(s, Len(s) - Len(p) + 1, Len(s)) = p

\* the positions at which p occurs in s
Occurrences(s, p) == {i \in 1..(Len(s) - Len(p) + 1) : SubSeq(s, i, i + Len(p) - 1) = p}

\* str::contains
Contains(s, p) == Occurrences(s, p) # {}

\* str::find, as an Option of a 1-based position
Find(s, p) == IF Contains(s, p) THEN <<MinOf(Occurrences(s, p))>> ELSE <<>>

\* str::rfind, as an Option of a 1-based position
RFind(s, p) == IF Contains(s, p) THEN <<MaxOf(Occurrences(s, p))>> ELSE <<>>

\* str::trim_start_matches: every leading repetition of the character c is removed
TrimStartMatches(s, c) ==
    LET keep == {i \in 1..Len(s) : Ch(s, i) # c}
    IN  IF keep = {} THEN "" ELSE SubSeq(s, MinOf(keep), Len(s))

\* str::trim_end_matches: every trailing repetition of the character c is removed
TrimEndMatches(s, c) ==
    LET keep == {i \in 1..Len(s) : Ch(s, i) # c}
    IN  IF keep = {} THEN "" ELSE SubSeq(s, 1, MaxOf(keep))

\* str::split on a pattern: the pieces between the occurrences, empty ones kept
RECURSIVE Split(_, _)
Split(s, p) ==
    IF ~Contains(s, p) THEN <<s>>
    ELSE LET i == MinOf(Occurrences(s, p))
         IN  <<SubSeq(s, 1, i - 1)>> \o Split(SubSeq(s, i + Len(p), Len(s)), p)

\* str::split on a set of characters
RECURSIVE SplitAny(_, _)
SplitAny(s, cs) ==
    LET at == {i \in 1..Len(s) : Ch(s, i) \in cs}
    IN  IF at = {} THEN <<s>>
        ELSE LET i == MinOf(at)
             IN  <<SubSeq(s, 1, i - 1)>> \o SplitAny(SubSeq(s, i + 1, Len(s)), cs)

\* Iterator::filter(|s| !s.is_empty())
RECURSIVE NonEmpty(_)
NonEmpty(ss) ==
    IF ss = <<>> THEN <<>>
    ELSE (IF Head(ss) = "" THEN <<>> ELSE <<Head(ss)>>) \o NonEmpty(Tail(ss))

\* Iterator::map(|s| s.trim())
TrimAll(ss) == [i \in 1..Len(ss) |-> Trim(ss[i])]

\* str::split_whitespace
SplitWhitespace(s) == NonEmpty(SplitAny(s, {" ", "\n", "\t", "\r"}))

\* Iterator::nth, 0-based, as an Option
Nth(ss, n) == IF n + 1 <= Len(ss) THEN <<ss[n + 1]>> ELSE <<>>

\* [String]::join
RECURSIVE Join(_, _)
Join(ss, sep) ==
    IF ss = <<>> THEN ""
    ELSE IF Len(ss) = 1 THEN ss[1]
    ELSE ss[1] \o sep \o Join(Tail(ss), sep)

(***************************************************************************)
(* Result<T, String>, and collecting an iterator of Results into one.      *)
(***************************************************************************)
Ok(v) == [tag |-> "Ok", val |-> v]

Err(e) == [tag |-> "Err", val |-> e]

\* a panic of the call: Option::unwrap on None, or a slice out of range
Panic(what) == [tag |-> "Panic", val |-> what]

IsOk(r) == r.tag = "Ok"

\* whether &s[from..to] (0-based, to excluded) is in range
SliceOk(s, from, to) == from <= to /\ to <= Len(s)

\* Iterator::collect::<Result<Vec<_>, String>>: the first Err, or all the values
Collect(rs) ==
    LET bad == {i \in 1..Len(rs) : ~IsOk(rs[i])}
    IN  IF bad = {} THEN Ok([i \in 1..Len(rs) |-> rs[i].val])
        ELSE rs[MinOf(bad)]

(***************************************************************************)
(* The AST model.                                                          *)
(***************************************************************************)
Simple(n) == [kind |-> "Simple", name |-> n, args |-> <<>>]

Reference(t) == [kind |-> "Reference", name |-> "", args |-> <<t>>]

Generic(n, as) == [kind |-> "Generic", name |-> n, args |-> as]

ParamNode(n, t) == [name |-> n, param_type |-> t]

FieldNode(n, t) == [name |-> n, field_type |-> t]

MethodNode(n, ps, rt) == [name |-> n, params |-> ps, return_type |-> rt]

VariantNode(n, data) == [name |-> n, associated_data |-> data]

TraitNode(n, ms) == [kind |-> "Trait", name |-> n, methods |-> ms]

StructNode(n, fs) == [kind |-> "Struct", name |-> n, fields |-> fs]

EnumNode(n, vs) == [kind |-> "Enum", name |-> n, variants |-> vs]

(***************************************************************************)
(* Parser::parse_type                                                      *)
(***************************************************************************)
\* parse_type with the generic rule tried before the reference and bracket rules
RECURSIVE ParseTypeGenericFirst(_)
ParseTypeGenericFirst(text) ==
    IF Contains(text, "<") /\ Contains(text, ">") THEN
        LET name == Trim(Split(text, "<")[1])
            args_str == Trim(TrimEndMatches(Nth(Split(text, "<"), 1)[1], ">"))
            pieces == Split(args_str, ",")
            args == Collect([i \in 1..Len(pieces) |-> ParseTypeGenericFirst(Trim(pieces[i]))])
        IN  IF IsOk(args) THEN Ok(Generic(name, args.val)) ELSE args
    ELSE IF StartsWith(text, "&") THEN
        LET inner == Trim(TrimStartMatches(text, "&"))
            inner_type == ParseTypeGenericFirst(inner)
        IN  IF IsOk(inner_type) THEN Ok(Reference(inner_type.val)) ELSE inner_type
    ELSE IF StartsWith(text, "[") /\ EndsWith(text, "]") THEN
        LET inner_str == Trim(SubSeq(text, 2, Len(text) - 1))
            inner_type == ParseTypeGenericFirst(inner_str)
        IN  IF IsOk(inner_type) THEN Ok(Generic("[]", <<inner_type.val>>)) ELSE inner_type
    ELSE Ok(Simple(text))

RECURSIVE ParseType(_)

ParseType(text) ==
    IF StartsWith(text, "&") THEN
        LET inner == Trim(TrimStartMatches(text, "&"))
            inner_type == ParseType(inner)
        IN  IF IsOk(inner_type) THEN Ok(Reference(inner_type.val)) ELSE inner_type
    ELSE IF StartsWith(text, "[") /\ EndsWith(text, "]") THEN
        IF ~SliceOk(text, 1, Len(text) - 1) THEN Panic("slice index")
        ELSE
        LET inner_str == Trim(SubSeq(text, 2, Len(text) - 1))
            inner_type == ParseType(inner_str)
        IN  IF IsOk(inner_type) THEN Ok(Generic("[]", <<inner_type.val>>)) ELSE inner_type
    ELSE IF Contains(text, "<") /\ Contains(text, ">") THEN
        IF Nth(Split(text, "<"), 1) = <<>> THEN Panic("unwrap on None")
        ELSE
        LET name == Trim(Split(text, "<")[1])
            args_str == Trim(TrimEndMatches(Nth(Split(text, "<"), 1)[1], ">"))
            pieces == Split(args_str, ",")
            args == Collect([i \in 1..Len(pieces) |-> ParseType(Trim(pieces[i]))])
        IN  IF IsOk(args) THEN Ok(Generic(name, args.val)) ELSE args
    ELSE Ok(Simple(text))

(***************************************************************************)
(* TypeNode::display                                                       *)
(***************************************************************************)
RECURSIVE Display(_)
Display(t) ==
    CASE t.kind = "Simple" -> t.name
      [] t.kind = "Reference" -> "&" \o Display(t.args[1])
      [] t.kind = "Generic" ->
            LET args_display == [i \in 1..Len(t.args) |-> Display(t.args[i])]
            IN  t.name \o "<" \o Join(args_display, ", ") \o ">"

(***************************************************************************)
(* Parser::parse_params and Parser::parse_method                           *)
(***************************************************************************)
\* the closure of parse_params with the type text passed on untrimmed
ParamResultUntrimmedType(fragment) ==
    LET param == Trim(fragment)
    IN  IF param = "&self" THEN Ok(ParamNode("&self", Reference(Simple("self"))))
        ELSE IF param = "self" THEN Ok(ParamNode("self", Simple("self")))
        ELSE LET parts == Split(param, ":")
             IN  IF Len(parts) # 2 THEN Err("Invalid parameter format")
                 ELSE LET param_type == ParseType(parts[2])
                      IN  IF IsOk(param_type)
                          THEN Ok(ParamNode(Trim(parts[1]), param_type.val))
                          ELSE param_type

\* the closure of parse_params: one comma-separated fragment of the list
ParamResult(fragment) ==
    LET param == Trim(fragment)
    IN  IF param = "&self" THEN Ok(ParamNode("&self", Reference(Simple("self"))))
        ELSE IF param = "self" THEN Ok(ParamNode("self", Simple("self")))
        ELSE LET parts == Split(param, ":")
             IN  IF Len(parts) # 2 THEN Err("Invalid parameter format")
                 ELSE LET param_type == ParseType(Trim(parts[2]))
                      IN  IF IsOk(param_type)
                          THEN Ok(ParamNode(Trim(parts[1]), param_type.val))
                          ELSE param_type

ParseParams(text) ==
    IF Trim(text) = "" THEN Ok(<<>>)
    ELSE LET fragments == Split(text, ",")
         IN  Collect([i \in 1..Len(fragments) |-> ParamResult(fragments[i])])

\* the return_type of parse_method: a Result of an Option
ReturnType(text) ==
    IF Contains(text, "->") THEN
        IF Nth(Split(text, "->"), 1) = <<>> THEN Panic("unwrap on None")
        ELSE
        LET return_str == TrimEndMatches(Trim(Nth(Split(text, "->"), 1)[1]), ";")
            ty == ParseType(return_str)
        IN  IF IsOk(ty) THEN Ok(<<ty.val>>) ELSE ty
    ELSE Ok(<<>>)

ParseMethod(method_str) ==
    LET text == Trim(method_str)
        parts == SplitAny(text, {"(", ")"})
    IN  IF Len(parts) < 2 THEN Err("Invalid method format")
        ELSE LET name == Nth(SplitWhitespace(parts[1]), 1)
             IN  IF name = <<>> THEN Err("Invalid method name")
                 ELSE LET params == ParseParams(parts[2])
                      IN  IF ~IsOk(params) THEN params
                          ELSE LET return_type == ReturnType(text)
                               IN  IF ~IsOk(return_type) THEN return_type
                                   ELSE Ok(MethodNode(name[1], params.val, return_type.val))

(***************************************************************************)
(* Parser::parse_trait                                                     *)
(***************************************************************************)
\* the method_strings of parse_trait
MethodStrings(body_content) == NonEmpty(TrimAll(Split(body_content, ";")))

ParseTrait(text) ==
    LET trait_name == Nth(SplitWhitespace(text), 2)
        body_start == Find(text, "{")
        body_end == RFind(text, "}")
    IN  IF trait_name = <<>> THEN Err("Invalid trait definition")
        ELSE IF body_start = <<>> THEN Err("Missing trait body")
        ELSE IF body_end = <<>> THEN Err("Missing closing brace")
        ELSE IF body_end[1] <= body_start[1] THEN Err("Invalid trait body")
        ELSE IF ~SliceOk(text, body_start[1], body_end[1] - 1) THEN Panic("slice index")
        ELSE LET body_content == Trim(SubSeq(text, body_start[1] + 1, body_end[1] - 1))
                 method_strings == MethodStrings(body_content)
                 methods == Collect([i \in 1..Len(method_strings) |->
                                        ParseMethod(method_strings[i])])
             IN  IF IsOk(methods) THEN Ok(TraitNode(trait_name[1], methods.val))
                 ELSE methods

(***************************************************************************)
(* Parser::parse_struct                                                    *)
(***************************************************************************)
\* the closure of parse_struct accepting two pieces or more
FieldResultAtLeastTwo(field_str) ==
    LET parts == Split(field_str, ":")
    IN  IF Len(parts) < 2 THEN Err("Invalid field format")
        ELSE LET field_type == ParseType(Trim(parts[2]))
             IN  IF IsOk(field_type) THEN Ok(FieldNode(Trim(parts[1]), field_type.val))
                 ELSE field_type

\* the closure of parse_struct: one comma-separated fragment of the body
FieldResult(field_str) ==
    LET parts == Split(field_str, ":")
    IN  IF Len(parts) # 2 THEN Err("Invalid field format")
        ELSE LET field_type == ParseType(Trim(parts[2]))
             IN  IF IsOk(field_type) THEN Ok(FieldNode(Trim(parts[1]), field_type.val))
                 ELSE field_type

\* the fragments parse_struct maps over
FieldStrings(body_content) == Split(body_content, ",")

ParseStruct(text) ==
    LET struct_name == Nth(SplitWhitespace(text), 2)
        body_start == Find(text, "{")
        body_end == RFind(text, "}")
    IN  IF struct_name = <<>> THEN Err("Invalid struct definition")
        ELSE IF body_start = <<>> THEN Err("Missing struct body")
        ELSE IF body_end = <<>> THEN Err("Missing closing brace")
        ELSE IF body_end[1] <= body_start[1] THEN Err("Invalid struct body")
        ELSE IF ~SliceOk(text, body_start[1], body_end[1] - 1) THEN Panic("slice index")
        ELSE LET body_content == Trim(SubSeq(text, body_start[1] + 1, body_end[1] - 1))
                 field_strings == FieldStrings(body_content)
                 fields == Collect([i \in 1..Len(field_strings) |->
                                       FieldResult(field_strings[i])])
             IN  IF IsOk(fields) THEN Ok(StructNode(struct_name[1], fields.val))
                 ELSE fields

(***************************************************************************)
(* Parser::parse, Parser::parse_enum and Parser::parse_tuple_variant       *)
(***************************************************************************)
\* the prefix test of Parser::parse: the parser the trimmed text is routed to
Dispatch(trimmed) ==
    IF StartsWith(trimmed, "pub trait") THEN "parse_trait"
    ELSE IF StartsWith(trimmed, "pub struct") THEN "parse_struct"
    ELSE IF StartsWith(trimmed, "pub enum") THEN "parse_enum"
    ELSE "none"

\* the dispatch on the text as passed, untrimmed
RouteUntrimmed(text) == Dispatch(text)

\* the parser Parser::parse hands its input to: the input is trimmed first
Route(text) == Dispatch(Trim(text))

\* the variant_strings without the filter on empty fragments
VariantStringsUnfiltered(body_content) == TrimAll(Split(body_content, ","))

\* the variant_strings of parse_enum
VariantStrings(body_content) == NonEmpty(TrimAll(Split(body_content, ",")))

\* the variant test with either parenthesis sufficing
HasEitherParenthesis(variant_str) == Contains(variant_str, "(") \/ Contains(variant_str, ")")

\* the test of parse_enum for a variant with associated data
HasAssociatedData(variant_str) == Contains(variant_str, "(") /\ Contains(variant_str, ")")

RECURSIVE Parse(_)
RECURSIVE ParseEnum(_)
RECURSIVE VariantResult(_)

\* the body of the loop of parse_enum: one variant
VariantResult(variant_str) ==
    IF HasAssociatedData(variant_str) THEN
        IF Nth(Split(variant_str, "("), 1) = <<>> THEN Panic("unwrap on None")
        ELSE
        LET name == Trim(Split(variant_str, "(")[1])
            data_str == TrimEndMatches(Nth(Split(variant_str, "("), 1)[1], ")")
            associated_ast == Parse(data_str)
        IN  IF IsOk(associated_ast) THEN Ok(VariantNode(name, <<associated_ast.val>>))
            ELSE associated_ast
    ELSE Ok(VariantNode(variant_str, <<>>))

ParseEnum(text) ==
    LET enum_name == Nth(SplitWhitespace(text), 2)
        body_start == Find(text, "{")
        body_end == RFind(text, "}")
    IN  IF enum_name = <<>> THEN Err("Invalid enum definition")
        ELSE IF body_start = <<>> THEN Err("Missing enum body")
        ELSE IF body_end = <<>> THEN Err("Missing closing brace")
        ELSE IF body_end[1] <= body_start[1] THEN Err("Invalid enum body")
        ELSE IF ~SliceOk(text, body_start[1], body_end[1] - 1) THEN Panic("slice index")
        ELSE LET body_content == Trim(SubSeq(text, body_start[1] + 1, body_end[1] - 1))
                 variant_strings == VariantStrings(body_content)
                 variants == Collect([i \in 1..Len(variant_strings) |->
                                         VariantResult(variant_strings[i])])
             IN  IF IsOk(variants) THEN Ok(EnumNode(enum_name[1], variants.val))
                 ELSE variants

Parse(text) ==
    LET trimmed == Trim(text)
        to == Route(text)
    IN  CASE to = "parse_trait" -> ParseTrait(trimmed)
          [] to = "parse_struct" -> ParseStruct(trimmed)
          [] to = "parse_enum" -> ParseEnum(trimmed)
          [] OTHER -> Err("Unsupported or invalid Rust construct")

\* Parser::parse_tuple_variant: no function of the crate calls it
ParseTupleVariant(text) ==
    LET pieces == NonEmpty(TrimAll(Split(text, ",")))
        fields == Collect([i \in 1..Len(pieces) |->
                              LET ty == ParseType(pieces[i])
                              IN  IF IsOk(ty) THEN Ok(FieldNode(ToString(i - 1), ty.val))
                                  ELSE ty])
    IN  IF IsOk(fields) THEN Ok(StructNode("", fields.val)) ELSE fields

(***************************************************************************)
(* display_tree: the lines it prints, in order.  The connector glyphs of    *)
(* the source are not ASCII; "L--" stands for the last-child connector and  *)
(* "|--" for the connector of the siblings before it.                       *)
(***************************************************************************)
LastBranch == "L--"

MidBranch == "|--"

Branch(is_last) == IF is_last THEN LastBranch ELSE MidBranch

\* Vec concatenation of the lines printed by successive calls
RECURSIVE Concat(_)
Concat(seqs) == IF seqs = <<>> THEN <<>> ELSE Head(seqs) \o Concat(Tail(seqs))

\* ParamNode::display_tree_internal
ParamLines(param, prefix) ==
    <<prefix \o "Param: " \o param.name \o ": " \o Display(param.param_type)>>

\* FieldNode::display_tree_internal
FieldLines(field, prefix) ==
    <<prefix \o "Field: " \o field.name \o ": " \o Display(field.field_type)>>

\* the connector MethodNode::display_tree_internal gives the Return Type line
ReturnBranch(len) == IF len = 0 THEN LastBranch ELSE MidBranch

\* MethodNode::display_tree_internal
MethodLines(method, prefix) ==
    LET len == Len(method.params)
    IN  <<prefix \o "Method: " \o method.name>>
        \o Concat([i \in 1..len |->
                      ParamLines(method.params[i], prefix \o Branch(i = len) \o " ")])
        \o (IF method.return_type # <<>>
             THEN <<prefix \o ReturnBranch(len) \o " " \o "Return Type: "
                      \o Display(method.return_type[1])>>
             ELSE <<>>)

RECURSIVE AstLines(_, _)
RECURSIVE VariantLines(_, _)

\* VariantNode::display_tree_internal
VariantLines(variant, prefix) ==
    <<prefix \o "Variant: " \o variant.name>>
    \o (IF variant.associated_data # <<>>
         THEN AstLines(variant.associated_data[1], prefix \o "    ")
         ELSE <<>>)

\* AstNode::display_tree_internal
AstLines(node, prefix) ==
    CASE node.kind = "Trait" ->
            LET len == Len(node.methods)
            IN  <<prefix \o "- Trait: " \o node.name>>
                \o Concat([i \in 1..len |->
                              MethodLines(node.methods[i], prefix \o Branch(i = len) \o " ")])
      [] node.kind = "Struct" ->
            LET len == Len(node.fields)
            IN  <<prefix \o "- Struct: " \o node.name>>
                \o Concat([i \in 1..len |->
                              FieldLines(node.fields[i], prefix \o Branch(i = len) \o " ")])
      [] node.kind = "Enum" ->
            LET len == Len(node.variants)
            IN  <<prefix \o "- Enum: " \o node.name>>
                \o Concat([i \in 1..len |->
                              VariantLines(node.variants[i], prefix \o Branch(i = len) \o " ")])

\* AstNode::display_tree
DisplayTree(node) == AstLines(node, "")

(***************************************************************************)
(* The texts the callers pass.  A declaration is written from its member    *)
(* fragments in one of the three whitespace layouts of the tests; a text is *)
(* passed as it stands.                                                     *)
(***************************************************************************)
Layouts == {"multi_line", "blank_lines", "single_line"}

SeqsUpTo(S, n) == UNION {[1..k -> S] : k \in 0..n}

\* comma-separated fragments of a struct body
FieldFragments ==
    {"x: f64", "label: String", "x f64", "data: &[u8]", "a: b: c"}

\* comma-separated fragments of an enum body
VariantFragments ==
    {"Red", "Move { x: i32", "y: i32 }", "Write(String)",
     "Boxed(pub struct Inner { v: i32 })", "Open("}

\* method signatures of a trait body, without their terminating semicolon
MethodFragments ==
    {"fn visualize(&self, data: &[u8])", "fn process(&self, input: &str) -> String",
     "fn invalid_method(&self data: &[u8])", "fn reset()", "fn size(self) -> usize",
     "fn"}

\* what follows the last member of a body
Tails(kind) == IF kind = "trait" THEN {";", "; // Missing comma"} ELSE {"", ","}

Fragments(kind) ==
    CASE kind = "trait" -> MethodFragments
      [] kind = "struct" -> FieldFragments
      [] kind = "enum" -> VariantFragments

DeclName(kind) ==
    CASE kind = "trait" -> "Visualizer"
      [] kind = "struct" -> "Point"
      [] kind = "enum" -> "Color"

Separator(kind) == IF kind = "trait" THEN ";" ELSE ","

Declarations ==
    UNION {{[kind |-> k, name |-> DeclName(k), members |-> ms, tail |-> t, layout |-> l] :
              ms \in SeqsUpTo(Fragments(k), MaxMembers), t \in Tails(k), l \in Layouts} :
           k \in {"trait", "struct", "enum"}}

\* the text of a declaration, as the tests lay it out
DeclText(d) ==
    LET n == Len(d.members)
        sep == Separator(d.kind)
        header == "pub " \o d.kind \o " " \o d.name \o " {"
        one_line == header \o " " \o Join(d.members, sep \o " ") \o d.tail \o " }"
        rows == Join([i \in 1..n |-> "    " \o d.members[i]], sep \o "\n")
        block == header \o "\n" \o rows \o d.tail \o "\n" \o "}"
    IN  CASE d.layout = "single_line" -> one_line
          [] d.layout = "multi_line" -> block
          [] d.layout = "blank_lines" -> "\n" \o block \o "\n"

\* the enum of test_parse_enum_with_associated_data, and the same on one line
MessageEnum ==
    "\n    pub enum Message {\n        Quit,\n        Move { x: i32, y: i32 },\n"
    \o "        Write(String),\n        ChangeColor(i32, i32, i32),\n    }\n"

MessageEnumOneLine ==
    "pub enum Message { Quit, Move { x: i32, y: i32 }, Write(String), ChangeColor(i32, i32, i32), }"

\* the struct of test_parse_struct, and the same on one line
PointStructText ==
    "\n    pub struct Point {\n        x: f64,\n        y: f64,\n        label: String,\n    }\n"

PointStructOneLine == "pub struct Point { x: f64, y: f64, label: String, }"

\* the enum of test_parse_enum, and the same on one line
ColorEnumText ==
    "\n    pub enum Color {\n        Red,\n        Green,\n        Blue,\n    }\n"

ColorEnumOneLine == "pub enum Color { Red, Green, Blue, }"

\* the struct of test_parse_struct_with_invalid_field, without its comment
InvalidStructText ==
    "\n    pub struct InvalidStruct {\n        x f64,\n        y: f64,\n    }\n"

\* the trait of test_parse_trait_with_invalid_method, with its comment
InvalidTraitText ==
    "\n    pub trait InvalidTrait {\n        fn invalid_method(&self data: &[u8]); "
    \o "// Missing comma\n    }\n"

\* texts passed as they stand: the tests' other inputs, and texts that are no declaration
Texts ==
    {MessageEnum, MessageEnumOneLine, PointStructText, PointStructOneLine,
     ColorEnumText, ColorEnumOneLine, InvalidStructText, InvalidTraitText,
     "fn standalone_function() {}", "", "  ", "pub", "pub struct", "pub struct Point",
     "pub struct Point {", "pub struct Point }{", "pub struct{}", "pub struct{x:f64}",
     "pub  struct Point { x: f64 }", "struct Point { x: f64 }", "Pub Struct Point {}",
     "pub enum", "pub enum Color }", "pub trait", "pub trait Visualizer ;",
     "x: i32, y: i32", "String", " pub fn main() {}\n",
     "pub enum Color { )( }", "pub enum Color { Close) }", "pub enum Color }{",
     "pub trait Visualizer { fn a() -> ; fn b) -> (; -> }", "pub trait Visualizer }{"}

\* type texts: names, and the reference, slice and generic forms over them
TypeNames == {"i32", "u8", "T"}

RECURSIVE TypeTexts(_)
TypeTexts(depth) ==
    IF depth = 0 THEN TypeNames
    ELSE LET inner == TypeTexts(depth - 1)
         IN  inner \cup {"&" \o t : t \in inner} \cup {"[" \o t \o "]" : t \in inner}
                   \cup {"Vec<" \o t \o ">" : t \in inner}
                   \cup {"Map<" \o t \o ", " \o u \o ">" : t, u \in TypeNames}

\* type texts of the claims and degenerate ones
OtherTypeTexts ==
    {"", "&", "[]", "<>", "& T", "&mut T", "[u8; 4]", "Option<Box<T>>", "self",
     "[", "]", "<", ">", "><", "a>b<c", "&&", "&[", "Vec<[>"}

Calls ==
    Declarations
    \cup {[kind |-> "text", text |-> t] : t \in Texts}
    \cup {[kind |-> "type", text |-> t] : t \in TypeTexts(MaxTypeDepth) \cup OtherTypeTexts}

\* the text of a call
TextOf(call) == IF call.kind \in {"text", "type"} THEN call.text ELSE DeclText(call)

(***************************************************************************)
(* The state machine: a caller holds a text (Init), parses it with          *)
(* Parser::parse and renders the tree, as the examples do; or parses it as  *)
(* a type with parse_type, formats the type and parses the format again.    *)
(***************************************************************************)
NoResult == [tag |-> "None", val |-> ""]

Init ==
    /\ decl \in Calls
    /\ input = TextOf(decl)
    /\ pc = "start"
    /\ route = ""
    /\ result = NoResult
    /\ lines = <<>>
    /\ shown = ""
    /\ reparsed = NoResult

\* Parser::parse(input)
CallParse ==
    /\ pc = "start"
    /\ decl.kind # "type"
    /\ route' = Route(input)
    /\ result' = Parse(input)
    /\ pc' = "parsed"
    /\ UNCHANGED <<decl, input, lines, shown, reparsed>>

\* ast.display_tree(), on the Ok value of the parse
CallDisplayTree ==
    /\ pc = "parsed"
    /\ IsOk(result)
    /\ lines' = DisplayTree(result.val)
    /\ pc' = "displayed"
    /\ UNCHANGED <<decl, input, route, result, shown, reparsed>>

\* Parser::parse_type(input)
CallParseType ==
    /\ pc = "start"
    /\ decl.kind = "type"
    /\ result' = ParseType(input)
    /\ pc' = "typed"
    /\ UNCHANGED <<decl, input, route, lines, shown, reparsed>>

\* type_node.display(), on the Ok value of the type parse
CallDisplay ==
    /\ pc = "typed"
    /\ IsOk(result)
    /\ shown' = Display(result.val)
    /\ pc' = "shown"
    /\ UNCHANGED <<decl, input, route, result, lines, reparsed>>

\* Parser::parse_type on the formatted type
CallReparse ==
    /\ pc = "shown"
    /\ reparsed' = ParseType(shown)
    /\ pc' = "reparsed"
    /\ UNCHANGED <<decl, input, route, result, lines, shown>>

Next ==
    \/ CallParse
    \/ CallDisplayTree
    \/ CallParseType
    \/ CallDisplay
    \/ CallReparse

Spec == Init /\ [][Next]_vars

(***************************************************************************)
(* Vocabulary of the properties.                                            *)
(***************************************************************************)
Parsed == pc \in {"parsed", "displayed"}

IsDeclaration(kind) == decl.kind = kind

\* the number of colons of a fragment
Colons(fragment) == Cardinality(Occurrences(fragment, ":"))

\* the comma-separated fragments of the body of a written declaration
BodyFragments ==
    IF decl.tail = "," THEN Append(decl.members, "")
    ELSE IF decl.members = <<>> THEN <<"">>
    ELSE decl.members

\* the field a well-formed fragment `name: type` declares
DeclaredField(fragment) ==
    LET at == MinOf(Occurrences(fragment, ":"))
    IN  FieldNode(Trim(SubSeq(fragment, 1, at - 1)),
                  ParseType(Trim(SubSeq(fragment, at + 1, Len(fragment)))).val)

PointStruct ==
    StructNode("Point", <<FieldNode("x", Simple("f64")), FieldNode("y", Simple("f64")),
                          FieldNode("label", Simple("String"))>>)

(***************************************************************************)
(* C1: a struct whose body is a list of `name: type` fields ending with a   *)
(* trailing comma parses to a Struct with the declared name and exactly the *)
(* listed fields in source order; the Point struct of the tests gives       *)
(* x: f64, y: f64, label: String.                                           *)
(***************************************************************************)
C1_StructWithTrailingComma ==
    /\ (Parsed /\ input \in {PointStructText, PointStructOneLine}) => result = Ok(PointStruct)
    /\ (/\ Parsed
         /\ IsDeclaration("struct")
         /\ decl.tail = ","
         /\ decl.members # <<>>
         /\ \A i \in 1..Len(decl.members) : Colons(decl.members[i]) = 1)
        => result = Ok(StructNode(decl.name,
                         [i \in 1..Len(decl.members) |-> DeclaredField(decl.members[i])]))

(***************************************************************************)
(* C2: an enum with payload-bearing variants parses, every payload being a  *)
(* nameless Struct: positional fields "0", "1", ... for a tuple variant,    *)
(* the named fields for a struct-like variant; the Message enum of the      *)
(* tests gives the variants Quit, Move, Write, ChangeColor in that order.   *)
(***************************************************************************)
MessageAst ==
    EnumNode("Message",
        <<VariantNode("Quit", <<>>),
          VariantNode("Move", <<StructNode("", <<FieldNode("x", Simple("i32")),
                                                 FieldNode("y", Simple("i32"))>>)>>),
          VariantNode("Write", <<StructNode("", <<FieldNode("0", Simple("String"))>>)>>),
          VariantNode("ChangeColor", <<StructNode("", <<FieldNode("0", Simple("i32")),
                                                        FieldNode("1", Simple("i32")),
                                                        FieldNode("2", Simple("i32"))>>)>>)>>)

\* C2: the Message enum, and every enum of unit and `Write(String)` variants, parses
\* with each payload a nameless Struct of positional or named fields.
C2_EnumPayloadsAreStructs ==
    /\ (Parsed /\ input \in {MessageEnum, MessageEnumOneLine}) => result = Ok(MessageAst)
    /\ (/\ Parsed
         /\ IsDeclaration("enum")
         /\ \A i \in 1..Len(decl.members) :
               decl.members[i] \in {"Red", "Write(String)"})
        => /\ IsOk(result)
           /\ Len(result.val.variants) = Len(decl.members)
           /\ \A i \in 1..Len(decl.members) :
                 decl.members[i] = "Write(String)"
                 => result.val.variants[i]
                      = VariantNode("Write", <<ParseTupleVariant("String").val>>)

(***************************************************************************)
(* C3: the Visualizer trait of the tests parses, in each of the three       *)
(* layouts, to the same Trait: visualize(&self, data) without return type   *)
(* and process(&self, input) returning String.  As claimed, data has the    *)
(* type Generic{"[]", [u8]}; as amended, Reference(Generic{"[]", [u8]}).    *)
(***************************************************************************)
VisualizerMethods ==
    <<"fn visualize(&self, data: &[u8])", "fn process(&self, input: &str) -> String">>

IsVisualizer ==
    IsDeclaration("trait") /\ decl.members = VisualizerMethods /\ decl.tail = ";"

VisualizerAst(data_type) ==
    TraitNode("Visualizer",
        <<MethodNode("visualize",
                     <<ParamNode("&self", Reference(Simple("self"))),
                       ParamNode("data", data_type)>>,
                     <<>>),
          MethodNode("process",
                     <<ParamNode("&self", Reference(Simple("self"))),
                       ParamNode("input", Reference(Simple("str")))>>,
                     <<Simple("String")>>)>>)

ColorEnum ==
    EnumNode("Color", <<VariantNode("Red", <<>>), VariantNode("Green", <<>>),
                        VariantNode("Blue", <<>>)>>)

HasBothParentheses(fragment) ==
    Cardinality(Occurrences(fragment, "(")) > 0 /\ Cardinality(Occurrences(fragment, ")")) > 0

HasDeclarationPrefix(text) ==
    \E keyword \in {"trait", "struct", "enum"} :
        LET prefix == "pub " \o keyword
        IN  Len(text) >= Len(prefix) /\ SubSeq(text, 1, Len(prefix)) = prefix

UnsupportedConstruct == "Unsupported or invalid Rust construct"

\* C5: no declaration prefix gives the UnsupportedConstruct error; a prefix is always
\* routed to a declaration parser.
C5_UnsupportedConstruct ==
    Parsed
    => IF HasDeclarationPrefix(Trim(input))
       THEN route \in {"parse_trait", "parse_struct", "parse_enum"}
       ELSE route = "none" /\ result = Err(UnsupportedConstruct)

C5_Witness ==
    /\ pc = "parsed"
    /\ input = "fn standalone_function() {}"
    /\ result = Err(UnsupportedConstruct)

MissingCommaMethod == "fn invalid_method(&self data: &[u8])"

\* C7: a trait holding the method with the missing comma never parses to Ok.
C7_MissingCommaRejected ==
    (/\ Parsed
     /\ IsDeclaration("trait")
     /\ \E i \in 1..Len(decl.members) : decl.members[i] = MissingCommaMethod)
    => result.tag = "Err"

RECURSIVE Sum(_)
Sum(ns) == IF ns = <<>> THEN 0 ELSE Head(ns) + Sum(Tail(ns))

RECURSIVE LineCount(_)
RECURSIVE ChildLineCount(_, _)

\* the number of lines the i-th child of a node takes in the rendering
ChildLineCount(node, i) ==
    CASE node.kind = "Trait" ->
            1 + Len(node.methods[i].params) + Len(node.methods[i].return_type)
      [] node.kind = "Struct" -> 1
      [] node.kind = "Enum" ->
            1 + (IF node.variants[i].associated_data = <<>> THEN 0
                 ELSE LineCount(node.variants[i].associated_data[1]))

ChildCount(node) ==
    CASE node.kind = "Trait" -> Len(node.methods)
      [] node.kind = "Struct" -> Len(node.fields)
      [] node.kind = "Enum" -> Len(node.variants)

\* the number of lines a node takes in the rendering
LineCount(node) == 1 + Sum([i \in 1..ChildCount(node) |-> ChildLineCount(node, i)])

RECURSIVE ChildLine(_, _)
\* the line on which the i-th child of the root is printed
ChildLine(node, i) == IF i = 1 THEN 2 ELSE ChildLine(node, i - 1) + ChildLineCount(node, i - 1)

\* the connector a line carries at a nesting level: levels are four columns wide
ConnectorAt(line, level) == SubSeq(line, 4 * (level - 1) + 1, 4 * (level - 1) + 3)

ExpectedConnector(i, count) == IF i = count THEN "L--" ELSE "|--"

\* C9: the last child under the root and under each method carries the last-child
\* connector, every child before it the sibling connector.
C9_LastChildConnector ==
    pc = "displayed"
    => LET root == result.val
           count == ChildCount(root)
       IN  \A i \in 1..count :
             /\ ConnectorAt(lines[ChildLine(root, i)], 1) = ExpectedConnector(i, count)
             /\ root.kind = "Trait"
                => LET method == root.methods[i]
                       children == Len(method.params) + Len(method.return_type)
                   IN  \A c \in 1..children :
                         ConnectorAt(lines[ChildLine(root, i) + c], 2)
                           = ExpectedConnector(c, children)

(***************************************************************************)
(* C10: TypeNode::display inverts parse_type: Simple(n) is shown as n,       *)
(* Reference(t) as `&` and t, Generic{name, args} as `name<a1, a2, ...>`,    *)
(* and a Generic named "[]" in bracket notation, `[elem]`; so parsing the    *)
(* display of a parsed type gives the type back.                            *)
(***************************************************************************)
RECURSIVE ClaimedDisplay(_)
ClaimedDisplay(t) ==
    CASE t.kind = "Simple" -> t.name
      [] t.kind = "Reference" -> "&" \o ClaimedDisplay(t.args[1])
      [] t.kind = "Generic" /\ t.name = "[]" ->
            "[" \o Join([i \in 1..Len(t.args) |-> ClaimedDisplay(t.args[i])], ", ") \o "]"
      [] t.kind = "Generic" /\ t.name # "[]" ->
            t.name \o "<" \o Join([i \in 1..Len(t.args) |-> ClaimedDisplay(t.args[i])], ", ")
                   \o ">"

\* C10: display renders as claimed, "[]" in bracket notation, and parsing the display
\* of a parsed type gives the type back.
C10_DisplayInvertsParseType ==
    /\ pc \in {"shown", "reparsed"} => shown = ClaimedDisplay(result.val)
    /\ pc = "reparsed" => reparsed = result

(***************************************************************************)
(* C11: for a text with both `<` and `>` that neither starts with `&` nor   *)
(* is enclosed in brackets, parse_type gives Generic{name, args}: the name  *)
(* is the text before the first `<`, the arguments are everything after the *)
(* first `<` with one trailing `>` stripped, split on commas and parsed     *)
(* recursively; `Vec<Vec<i32>>` and `Option<Box<T>>` give nested Generics.  *)
(***************************************************************************)
IsGenericText(text) ==
    /\ Occurrences(text, "<") # {}
    /\ Occurrences(text, ">") # {}
    /\ SubSeq(text, 1, 1) # "&"
    /\ ~(SubSeq(text, 1, 1) = "[" /\ SubSeq(text, Len(text), Len(text)) = "]")

\* the arguments as the claim reads them off the text
ClaimedArguments(text) ==
    LET after == SubSeq(text, MinOf(Occurrences(text, "<")) + 1, Len(text))
        stripped == IF after # "" /\ SubSeq(after, Len(after), Len(after)) = ">"
                    THEN SubSeq(after, 1, Len(after) - 1)
                    ELSE after
        pieces == Split(Trim(stripped), ",")
    IN  [i \in 1..Len(pieces) |-> ParseType(Trim(pieces[i])).val]

\* C11: the generic rule takes everything after the first `<` as the argument text, so
\* that a generic argument is parsed recursively.
C11_GenericArguments ==
    pc = "typed"
    => /\ IsGenericText(input)
          => result = Ok(Generic(Trim(SubSeq(input, 1, MinOf(Occurrences(input, "<")) - 1)),
                                 ClaimedArguments(input)))
       /\ input = "Vec<Vec<i32>>"
          => result = Ok(Generic("Vec", <<Generic("Vec", <<Simple("i32")>>)>>))
       /\ input = "Option<Box<T>>"
          => result = Ok(Generic("Option", <<Generic("Box", <<Simple("T")>>)>>))

(***************************************************************************)
(* C12: for a text with a leading `&`, parse_type strips that one `&`,      *)
(* parses the remainder and wraps the result in Reference: parse_type of    *)
(* `&` and s is Reference(parse_type(trim(s))), the root has as many        *)
(* Reference wrappers as the text has leading `&`, and `&&T` gives          *)
(* Reference(Reference(Simple T)).                                          *)
(***************************************************************************)
RECURSIVE LeadingAmpersands(_)
LeadingAmpersands(text) ==
    IF text # "" /\ SubSeq(text, 1, 1) = "&"
    THEN 1 + LeadingAmpersands(SubSeq(text, 2, Len(text)))
    ELSE 0

RECURSIVE RootReferences(_)
RootReferences(t) == IF t.kind = "Reference" THEN 1 + RootReferences(t.args[1]) ELSE 0

\* C12: one leading `&` is one Reference wrapper around the parse of the remainder.
C12_ReferenceNesting ==
    (pc = "typed" /\ input # "" /\ SubSeq(input, 1, 1) = "&")
    => /\ result = Ok(Reference(ParseType(Trim(SubSeq(input, 2, Len(input)))).val))
       /\ RootReferences(result.val) >= LeadingAmpersands(input)
       /\ input = "&&T" => result = Ok(Reference(Reference(Simple("T"))))

(***************************************************************************)
(* The recursive calls of the parser: the texts parse_type passes to        *)
(* itself, and the texts parse_enum passes back to Parser::parse.           *)
(***************************************************************************)
\* the texts of the recursive calls parse_type(text) makes itself
ParseTypeCallees(text) ==
    IF StartsWith(text, "&") THEN <<Trim(TrimStartMatches(text, "&"))>>
    ELSE IF StartsWith(text, "[") /\ EndsWith(text, "]") THEN
        IF SliceOk(text, 1, Len(text) - 1) THEN <<Trim(SubSeq(text, 2, Len(text) - 1))>>
        ELSE <<>>
    ELSE IF Contains(text, "<") /\ Contains(text, ">") THEN
        IF Nth(Split(text, "<"), 1) = <<>> THEN <<>>
        ELSE TrimAll(Split(Trim(TrimEndMatches(Nth(Split(text, "<"), 1)[1], ">")), ","))
    ELSE <<>>

\* the texts of the calls of Parser::parse that parse_enum makes for parse(text): the
\* loop over the variants ends at the first variant that fails
ParseCallees(text) ==
    LET trimmed == Trim(text)
        body_start == Find(trimmed, "{")
        body_end == RFind(trimmed, "}")
    IN  IF Route(text) # "parse_enum" THEN <<>>
        ELSE IF Nth(SplitWhitespace(trimmed), 2) = <<>> THEN <<>>
        ELSE IF body_start = <<>> \/ body_end = <<>> THEN <<>>
        ELSE IF body_end[1] <= body_start[1] THEN <<>>
        ELSE LET body_content == Trim(SubSeq(trimmed, body_start[1] + 1, body_end[1] - 1))
                 variant_strings == VariantStrings(body_content)
                 reached == {i \in 1..Len(variant_strings) :
                               \A j \in 1..(i - 1) : IsOk(VariantResult(variant_strings[j]))}
             IN  Concat([i \in 1..Len(variant_strings) |->
                           IF /\ i \in reached
                              /\ HasAssociatedData(variant_strings[i])
                              /\ Nth(Split(variant_strings[i], "("), 1) # <<>>
                           THEN <<TrimEndMatches(Nth(Split(variant_strings[i], "("), 1)[1], ")")>>
                           ELSE <<>>])

\* every call (caller's text, callee's text) in the call tree under the call on a text;
\* a callee is followed only when its text is shorter than the caller's
RECURSIVE TypeCallPairs(_)
TypeCallPairs(text) ==
    LET callees == ParseTypeCallees(text)
    IN  UNION {{<<text, callees[i]>>}
               \cup (IF Len(callees[i]) < Len(text) THEN TypeCallPairs(callees[i]) ELSE {}) :
               i \in 1..Len(callees)}

RECURSIVE ParseCallPairs(_)
ParseCallPairs(text) ==
    LET callees == ParseCallees(text)
    IN  UNION {{<<text, callees[i]>>}
               \cup (IF Len(callees[i]) < Len(text) THEN ParseCallPairs(callees[i]) ELSE {}) :
               i \in 1..Len(callees)}

(***************************************************************************)
(* C13: Parser::parse, and parse_type, return Ok or Err on every text and   *)
(* never panic on an unwrap or a slice; every recursive call (parse_type on *)
(* a reference, slice or generic argument, parse_enum re-entering parse on  *)
(* a payload) is made on a text strictly shorter than its caller's.         *)
(***************************************************************************)
Returned(r) == r.tag \in {"Ok", "Err"}

\* C13: no call panics, and every recursive call is on a strictly shorter text.
C13_TotalAndTerminating ==
    /\ Parsed
       => /\ Returned(result)
          /\ \A call \in ParseCallPairs(input) : Len(call[2]) < Len(Trim(call[1]))
    /\ pc \in {"typed", "shown", "reparsed"}
       => /\ Returned(result)
          /\ \A call \in TypeCallPairs(input) : Len(call[2]) < Len(call[1])
    /\ pc = "reparsed" => Returned(reparsed)

C13_Witness ==
    /\ pc = "parsed"
    /\ IsDeclaration("enum")
    /\ ParseCallPairs(input) # {}
    /\ IsOk(result)

\* a reference to a nested type, parsed through two or more recursive calls
C13_TypeWitness ==
    /\ pc = "typed"
    /\ StartsWith(input, "&")
    /\ Cardinality(TypeCallPairs(input)) >= 2
    /\ IsOk(result)

====
